---- MODULE Spec2Model ----
(***************************************************************************)
(* The data-collection control loop of Step1-Data-Collection               *)
(* (data_collection_main.py with data_collection_module.py, motor_module.py *)
(* steering_module.py and key_press_module.py).                            *)
(*                                                                         *)
(* Speeds and angles are fixed-point numbers in tenths: 10 stands for 1.0, *)
(* 7 for 0.7, -5 for -0.5, 1 for 0.1.                                      *)
(* One tick of `while True` in main() is the sequence of steps             *)
(*   poll -> update -> actuate -> [arm] -> [collect | save -> clear]       *)
(*        -> quit check,                                                   *)
(* each step one action; pc is the position inside the tick.               *)
(*                                                                         *)
(* Beside the loop: the differential-drive mixer of Step3-Implementation   *)
(* (dc_motors_module.py, SpecMixer), the clamps of the Step1 actuators      *)
(* (SpecClamp) and the pin writes of the RPi.GPIO motor driver of           *)
(* "Step1-Data-Collection - Copy" (SpecPins).                               *)
(***************************************************************************)
EXTENDS Integers, Sequences, FiniteSets, TLC

VARIABLES
    pc,             \* position of main() inside the tick
    done,           \* global done
    record,         \* global record
    key_val,        \* global key_val
    key_old,        \* global key_old
    speed,          \* global speed (tenths)
    angle,          \* global angle (tenths)
    right_steering_error_handling,
    new_path,       \* main()'s local new_path: <<>> unassigned, <<i>> = .../img<i>
    folder_index,   \* data_collector.folder_index
    img_list,       \* data_collector.img_list
    speed_list,     \* data_collector.speed_list
    angle_list,     \* data_collector.angle_list
    keys_down,      \* keyboard: the keys held down at this tick's poll
    folders,        \* storage: indices i with data_collected/img<i> present
    images,         \* storage: the image files, <<folder, count, timestamp>>
    log_files,      \* storage: index i |-> rows of data_collected/log_<i>.csv
    motor_out,      \* motor driver: <<direction, magnitude>> last commanded
    servo_out,      \* servo: value last commanded
    motor_released, \* number of motor_controller.release() calls
    servo_detached, \* number of steering_controller.detach() calls
    camera_released,\* number of camera_controller.release() calls
    calls,          \* history: collaborator calls made so far in this tick
    hist,           \* history: [key, speed, angle, down] of the last two finished ticks
    session_cmds,   \* history: actuator state at the end of each tick the open session was ACTIVE
    sessions,       \* history: folder index of every session armed, in order
    n_stops,        \* history: number of times record went 3 -> 0
    n_clears,       \* history: number of times the three lists were cleared
    ticks,          \* clock: number of finished ticks (the capture timestamp)
    mix_pc,         \* DcMotorController: "idle", or the method that has returned
    mix_speed,      \* DcMotorController: the speed argument of the call (tenths)
    mix_angle,      \* DcMotorController: the angle argument of the call (tenths)
    motors_right,   \* DcMotorController.motors_right: <<direction, magnitude>>
    motors_left,    \* DcMotorController.motors_left: <<direction, magnitude>>
    drv_pc,         \* actuator call in progress: position inside move() / stop()
    drv_arg,        \* actuator call in progress: its argument (tenths)
    pwm_duty,       \* RPi.GPIO driver: duty cycle of the enable pin, percent
    in1,            \* RPi.GPIO driver: level of IN1 (the forward input)
    in2,            \* RPi.GPIO driver: level of IN2 (the backward input)
    servo_duty,     \* RPi.GPIO servo: duty cycle, in half percents
    auto_pc,        \* autonomous loop: position inside the iteration
    road_img,       \* storage: a file named "road_img" (no extension) exists
    auto_calls      \* history: camera and model calls of this iteration

vars == <<pc, done, record, key_val, key_old, speed, angle,
          right_steering_error_handling, new_path, folder_index, img_list,
          speed_list, angle_list, keys_down, folders, images, log_files,
          motor_out, servo_out, motor_released, servo_detached,
          camera_released, calls, hist, session_cmds, sessions, n_stops,
          n_clears, ticks, mix_pc, mix_speed, mix_angle, motors_right,
          motors_left, drv_pc, drv_arg, pwm_duty, in1, in2, servo_duty,
          auto_pc, road_img, auto_calls>>

\* ------------------------------------------------------------------ bounds

\* The loop is explored for this many ticks.
MaxTicks == 5

\* ------------------------------------------------------- program constants

\* Mutant of KEY_LIST: 's' and 'k' listed before 'r'.
KEY_LIST_StopQuitFirst == <<"RIGHT", "LEFT", "UP", "DOWN", "s", "k", "r">>

KEY_LIST == <<"RIGHT", "LEFT", "UP", "DOWN", "r", "s", "k">>
DEFAULT_SPEED == 10
DEFAULT_ANGLE == 7
LEFT_ANGLE == -5
STRAIGHT_ANGLE == 1

\* Python's None as the value of key_val / key_old, and "no key held".
NoKey == "None"

Keys == {KEY_LIST[i] : i \in 1..Len(KEY_LIST)}

\* ------------------------------------------------------------ pure helpers

Last(s) == s[Len(s)]

Clamp_None(x) == x

\* max(-1, min(1, x)) in tenths.
Clamp(x) == IF x < -10 THEN -10 ELSE IF x > 10 THEN 10 ELSE x

\* The first key of KEY_LIST that get_key_status reports pressed, NoKey when the
\* for loop ends without a break.
FirstPressed(ks) ==
    IF \E i \in 1..Len(KEY_LIST) : KEY_LIST[i] \in ks
    THEN KEY_LIST[CHOOSE i \in 1..Len(KEY_LIST) :
                      /\ KEY_LIST[i] \in ks
                      /\ \A j \in 1..(i - 1) : KEY_LIST[j] \notin ks]
    ELSE NoKey

\* get_key_press(): key_val is assigned only when a key is pressed.
get_key_press(ks, kv) == IF FirstPressed(ks) = NoKey THEN kv ELSE FirstPressed(ks)

\* The key this tick's poll matched.
Polled == FirstPressed(keys_down)

\* The key the previous tick's poll matched (NoKey before the first tick).
PrevKey == IF hist = <<>> THEN NoKey ELSE Last(hist).key


\* The last two entries of a history.
LastTwo(s) == IF Len(s) <= 2 THEN s ELSE SubSeq(s, Len(s) - 1, Len(s))

\* ------------------------------------------- update_movement_controls()

SpeedAfter_QuitStops(kv, sp) ==
    IF kv = "UP" THEN DEFAULT_SPEED
    ELSE IF kv = "DOWN" THEN -DEFAULT_SPEED
    ELSE IF kv \in {"s", "k"} THEN 0
    ELSE sp

\* speed after the if/elif chain.
SpeedAfter(kv, sp) ==
    IF kv = "UP" THEN DEFAULT_SPEED
    ELSE IF kv = "DOWN" THEN -DEFAULT_SPEED
    ELSE IF kv = "s" THEN 0
    ELSE sp

\* Mutant of AngleAfter: LEFT mirrors RIGHT.
AngleAfter_Symmetric(kv, an) ==
    IF kv = "RIGHT" THEN DEFAULT_ANGLE
    ELSE IF kv = "LEFT" THEN -DEFAULT_ANGLE
    ELSE IF kv = "UP" THEN STRAIGHT_ANGLE
    ELSE IF kv = "DOWN" THEN STRAIGHT_ANGLE
    ELSE IF kv = "s" THEN 0
    ELSE an

\* angle after the if/elif chain (main() has set it to 0 at the start of the tick).
AngleAfter(kv, an) ==
    IF kv = "RIGHT" THEN DEFAULT_ANGLE
    ELSE IF kv = "LEFT" THEN LEFT_ANGLE
    ELSE IF kv = "UP" THEN STRAIGHT_ANGLE
    ELSE IF kv = "DOWN" THEN STRAIGHT_ANGLE
    ELSE IF kv = "s" THEN 0
    ELSE an

Toggles_AlsoStop(kv, ko) == kv # ko /\ kv \in {"r", "s"}

\* The chain reaches its last branch, `elif key_val == "r"`, and takes it.
Toggles(kv, ko) ==
    /\ kv \notin {"RIGHT", "LEFT", "UP", "DOWN", "s", "k"}
    /\ kv # ko
    /\ kv = "r"

\* The trailing `if key_val != "r"` resets both key_val and key_old.
KeyValAfter(kv) == IF kv # "r" THEN NoKey ELSE kv

KeyOldAfter_Sticky(kv, ko) == IF Toggles(kv, ko) THEN kv ELSE ko

KeyOldAfter(kv, ko) ==
    IF kv # "r" THEN NoKey ELSE IF Toggles(kv, ko) THEN kv ELSE ko

\* ------------------------------------------------- the actuators

\* MotorController.move(speed): clamp, then backward(-speed) or forward(speed).
MotorMove(s) ==
    IF Clamp(s) < 0 THEN <<"backward", -Clamp(s)>> ELSE <<"forward", Clamp(s)>>

\* SteeringController.set_angle(ratio): the value written to the servo.
set_angle(ratio) == Clamp(ratio)

SteeringCalls_TrimLast(rseh, an) ==
    <<an>> \o (IF rseh = 1 /\ an = 0 THEN <<DEFAULT_ANGLE>> ELSE <<>>)

\* The angles main() passes to set_angle in one tick: the trim value first when
\* right_steering_error_handling is set and the angle is 0.
SteeringCalls(rseh, an) ==
    (IF rseh = 1 /\ an = 0 THEN <<DEFAULT_ANGLE>> ELSE <<>>) \o <<an>>

RsehAfter_NeverReset(rseh, an) == IF an < 0 THEN 1 ELSE rseh

RsehAfter(rseh, an) ==
    IF an < 0 THEN 1 ELSE IF rseh = 1 /\ an = 0 THEN 0 ELSE rseh

\* ------------------------------------------------- the session logger

\* Mutant of ScanFolder: the index is used without the scan.
ScanFolder_NoScan(fi, fs) == fi

\* The while loop of main(): the first index from fi upward with no folder.
RECURSIVE ScanFolder(_, _)
ScanFolder(fi, fs) == IF fi \in fs THEN ScanFolder(fi + 1, fs) ELSE fi

ImgName_NoCount(path, n, ts) == <<path, 0, ts>>

\* collect_data's image name: path, running sample count, timestamp.
ImgName(path, n, ts) == <<path, n, ts>>

\* The DataFrame save_log writes: one row per list position, no header.
Rows(il, sl, al) == [i \in 1..Len(il) |-> <<il[i], sl[i], al[i]>>]

\* The branch main() takes after the `if record == 1` block.
AfterArm(r) == IF r = 2 THEN "collect" ELSE IF r = 3 THEN "save" ELSE "quit"

\* ------------------------------------------------------------- the state

globals == <<done, record, key_val, key_old, speed, angle>>
collector == <<folder_index, img_list, speed_list, angle_list>>
storage == <<folders, images, log_files>>
actuators == <<motor_out, servo_out, right_steering_error_handling>>
releases == <<motor_released, servo_detached, camera_released>>
history == <<hist, session_cmds, sessions, n_stops, n_clears, ticks>>

mixer == <<mix_pc, mix_speed, mix_angle, motors_right, motors_left>>
drivers == <<drv_pc, drv_arg, pwm_duty, in1, in2, servo_duty>>
auto == <<auto_pc, road_img, auto_calls>>
loop == <<pc, globals, new_path, keys_down, collector, storage, actuators,
          releases, calls, history>>

\* DcMotorController.__init__: both motors constructed, nothing commanded yet.
MixerIdle ==
    /\ mix_pc = "idle"
    /\ mix_speed = 0
    /\ mix_angle = 0
    /\ motors_right = <<"stop", 0>>
    /\ motors_left = <<"stop", 0>>

\* MotorController.__init__ / SteeringController.__init__ of the RPi.GPIO
\* variant: pins set up as outputs, both PWM channels started at 0.
DriversIdle ==
    /\ drv_pc = "idle"
    /\ drv_arg = 0
    /\ pwm_duty = 0
    /\ in1 = "LOW"
    /\ in2 = "LOW"
    /\ servo_duty = 0

\* autonomous_car_controller.py is not running.
AutoIdle ==
    /\ auto_pc = "idle"
    /\ road_img = FALSE
    /\ auto_calls = <<>>

\* Folders left in data_collected by earlier runs of the program.
InitialFolders == {{}, {0}}

\* The module-level initialisation (lines 80-99) and data_collection_init().
\* The loop's own state: module globals of data_collection_main.py and the
\* freshly constructed collaborators.
LoopInit ==
    /\ pc = "poll"
    /\ done = 0
    /\ record = 0
    /\ key_val = NoKey
    /\ key_old = NoKey
    /\ speed = 0
    /\ angle = 0
    /\ right_steering_error_handling = 0
    /\ new_path = <<>>
    /\ folder_index = 0
    /\ img_list = <<>>
    /\ speed_list = <<>>
    /\ angle_list = <<>>
    /\ keys_down = {}
    /\ folders \in InitialFolders
    /\ images = {}
    /\ log_files = <<>>
    /\ motor_out = <<"stop", 0>>
    /\ servo_out = 0
    /\ motor_released = 0
    /\ servo_detached = 0
    /\ camera_released = 0
    /\ calls = <<>>
    /\ hist = <<>>
    /\ session_cmds = <<>>
    /\ sessions = <<>>
    /\ n_stops = 0
    /\ n_clears = 0
    /\ ticks = 0

Init ==
    /\ LoopInit
    /\ MixerIdle
    /\ DriversIdle
    /\ AutoIdle

\* ----------------------------------------------------------- the tick

\* Lines 170-171: angle = 0; get_key_press() with the keys ks held down.
Poll(ks) ==
    /\ pc = "poll"
    /\ keys_down' = ks
    /\ angle' = 0
    /\ key_val' = get_key_press(ks, key_val)
    /\ calls' = <<>>
    /\ pc' = "update"
    /\ UNCHANGED <<done, record, key_old, speed, new_path, collector, storage,
                   actuators, releases, history>>
    /\ UNCHANGED <<mixer, drivers, auto>>

\* The operator holds at most one key at the poll: get_key_press depends on the
\* keyboard only through FirstPressed, which SpecPoll covers for every key set.
GetKeyPress ==
    /\ ticks < MaxTicks
    /\ \E k \in Keys \cup {NoKey} : Poll(IF k = NoKey THEN {} ELSE {k})

DoneAfter_StopQuits(kv, d) == IF kv \in {"k", "s"} THEN d + 1 ELSE d

\* update_movement_controls: elif key_val == 'k': done += 1
DoneAfter(kv, d) == IF kv = "k" THEN d + 1 ELSE d

\* Line 172: update_movement_controls().
UpdateMovementControls ==
    /\ pc = "update"
    /\ speed' = SpeedAfter(key_val, speed)
    /\ angle' = AngleAfter(key_val, angle)
    /\ done' = DoneAfter(key_val, done)
    /\ record' = IF Toggles(key_val, key_old) THEN record + 1 ELSE record
    /\ key_old' = KeyOldAfter(key_val, key_old)
    /\ key_val' = KeyValAfter(key_val)
    /\ pc' = "actuate"
    /\ UNCHANGED <<new_path, collector, keys_down, storage, actuators,
                   releases, calls, history>>
    /\ UNCHANGED <<mixer, drivers, auto>>

\* Lines 174-181: motor_controller.move(speed), the steering trim, set_angle(angle).
Actuate ==
    /\ pc = "actuate"
    /\ motor_out' = MotorMove(speed)
    /\ servo_out' = set_angle(Last(SteeringCalls(right_steering_error_handling, angle)))
    /\ right_steering_error_handling' = RsehAfter(right_steering_error_handling, angle)
    /\ calls' = calls \o <<(<<"move", speed>>)>>
                      \o [i \in 1..Len(SteeringCalls(right_steering_error_handling, angle)) |->
                            <<"set_angle", SteeringCalls(right_steering_error_handling, angle)[i]>>]
    /\ pc' = IF record = 1 THEN "arm" ELSE AfterArm(record)
    /\ UNCHANGED <<globals, new_path, collector, keys_down, storage, releases,
                   history>>
    /\ UNCHANGED <<mixer, drivers, auto>>

StartRecording_NoMakedirs ==
    /\ pc = "arm"
    /\ folder_index' = ScanFolder(folder_index, folders)
    /\ new_path' = <<folder_index'>>
    /\ record' = record + 1
    /\ sessions' = Append(sessions, folder_index')
    /\ session_cmds' = <<>>
    /\ pc' = AfterArm(record')
    /\ UNCHANGED <<done, key_val, key_old, speed, angle, img_list, speed_list,
                   angle_list, keys_down, storage, actuators, releases, calls,
                   hist, n_stops, n_clears, ticks>>
    /\ UNCHANGED <<mixer, drivers, auto>>

\* Mutant of StartRecording: the collect branch is an elif of the arming branch.
StartRecording_Elif ==
    /\ pc = "arm"
    /\ folder_index' = ScanFolder(folder_index, folders)
    /\ new_path' = <<folder_index'>>
    /\ folders' = folders \cup {folder_index'}
    /\ record' = record + 1
    /\ calls' = Append(calls, <<"makedirs", folder_index'>>)
    /\ sessions' = Append(sessions, folder_index')
    /\ session_cmds' = <<>>
    /\ pc' = "quit"
    /\ UNCHANGED <<done, key_val, key_old, speed, angle, img_list, speed_list,
                   angle_list, keys_down, images, log_files, actuators,
                   releases, hist, n_stops, n_clears, ticks>>
    /\ UNCHANGED <<mixer, drivers, auto>>

\* Lines 184-190: scan for a free folder index, create the folder, record += 1.
StartRecording ==
    /\ pc = "arm"
    /\ folder_index' = ScanFolder(folder_index, folders)
    /\ new_path' = <<folder_index'>>
    /\ folders' = folders \cup {folder_index'}
    /\ record' = record + 1
    /\ calls' = Append(calls, <<"makedirs", folder_index'>>)
    /\ sessions' = Append(sessions, folder_index')
    /\ session_cmds' = <<>>
    /\ pc' = AfterArm(record')
    /\ UNCHANGED <<done, key_val, key_old, speed, angle, img_list, speed_list,
                   angle_list, keys_down, images, log_files, actuators,
                   releases, hist, n_stops, n_clears, ticks>>
    /\ UNCHANGED <<mixer, drivers, auto>>

\* CameraController.get_img(name, roi): the capture source writes one image file.
get_img(imgs, name) == imgs \cup {name}

CollectData_AngleSkipped ==
    /\ pc = "collect"
    /\ images' = get_img(images, ImgName(new_path[1], Len(img_list), ticks))
    /\ img_list' = Append(img_list, ImgName(new_path[1], Len(img_list), ticks))
    /\ speed_list' = Append(speed_list, speed)
    /\ calls' = Append(calls, <<"get_img", Len(img_list)>>)
    /\ pc' = "quit"
    /\ UNCHANGED <<globals, new_path, folder_index, angle_list, keys_down,
                   folders, log_files, actuators, releases, history>>
    /\ UNCHANGED <<mixer, drivers, auto>>

\* Mutant of CollectData: speed and angle are appended to each other's list.
CollectData_SwappedLabels ==
    /\ pc = "collect"
    /\ images' = get_img(images, ImgName(new_path[1], Len(img_list), ticks))
    /\ img_list' = Append(img_list, ImgName(new_path[1], Len(img_list), ticks))
    /\ speed_list' = Append(speed_list, angle)
    /\ angle_list' = Append(angle_list, speed)
    /\ calls' = Append(calls, <<"get_img", Len(img_list)>>)
    /\ pc' = "quit"
    /\ UNCHANGED <<globals, new_path, folder_index, keys_down, folders,
                   log_files, actuators, releases, history>>
    /\ UNCHANGED <<mixer, drivers, auto>>

\* Lines 192-193: collect_data() names the image, captures it, then appends the
\* row to the three lists.
CollectData ==
    /\ pc = "collect"
    /\ images' = get_img(images, ImgName(new_path[1], Len(img_list), ticks))
    /\ img_list' = Append(img_list, ImgName(new_path[1], Len(img_list), ticks))
    /\ speed_list' = Append(speed_list, speed)
    /\ angle_list' = Append(angle_list, angle)
    /\ calls' = Append(calls, <<"get_img", Len(img_list)>>)
    /\ pc' = "quit"
    /\ UNCHANGED <<globals, new_path, folder_index, keys_down, folders,
                   log_files, actuators, releases, history>>
    /\ UNCHANGED <<mixer, drivers, auto>>

CaptureFails_RowLogged ==
    /\ pc = "collect"
    /\ img_list' = Append(img_list, ImgName(new_path[1], Len(img_list), ticks))
    /\ speed_list' = Append(speed_list, speed)
    /\ angle_list' = Append(angle_list, angle)
    /\ calls' = Append(calls, <<"get_img_raises", Len(img_list)>>)
    /\ pc' = "aborted"
    /\ UNCHANGED <<globals, new_path, folder_index, keys_down, storage,
                   actuators, releases, history>>
    /\ UNCHANGED <<mixer, drivers, auto>>

\* The capture call raises: the exception leaves collect_data before any append
\* and, uncaught in main(), ends the program.
CaptureFails ==
    /\ pc = "collect"
    /\ calls' = Append(calls, <<"get_img_raises", Len(img_list)>>)
    /\ pc' = "aborted"
    /\ UNCHANGED <<globals, new_path, collector, keys_down, storage, actuators,
                   releases, history>>
    /\ UNCHANGED <<mixer, drivers, auto>>

SaveLog_NoReset ==
    /\ pc = "save"
    /\ log_files' = (folder_index :> Rows(img_list, speed_list, angle_list)) @@ log_files
    /\ calls' = Append(calls, <<"save_log", folder_index>>)
    /\ n_stops' = n_stops + 1
    /\ pc' = "clear"
    /\ UNCHANGED <<globals, new_path, collector, keys_down, folders, images,
                   actuators, releases, hist, session_cmds, sessions,
                   n_clears, ticks>>
    /\ UNCHANGED <<mixer, drivers, auto>>

SaveLog_NextIndex ==
    /\ pc = "save"
    /\ record' = 0
    /\ log_files' = ((folder_index + 1) :> Rows(img_list, speed_list, angle_list)) @@ log_files
    /\ calls' = Append(calls, <<"save_log", folder_index + 1>>)
    /\ n_stops' = n_stops + 1
    /\ pc' = "clear"
    /\ UNCHANGED <<done, key_val, key_old, speed, angle, new_path, collector,
                   keys_down, folders, images, actuators, releases, hist,
                   session_cmds, sessions, n_clears, ticks>>
    /\ UNCHANGED <<mixer, drivers, auto>>

\* Lines 195-197: record = 0; save_log() writes log_<folder_index>.csv.
SaveLog ==
    /\ pc = "save"
    /\ record' = 0
    /\ log_files' = (folder_index :> Rows(img_list, speed_list, angle_list)) @@ log_files
    /\ calls' = Append(calls, <<"save_log", folder_index>>)
    /\ n_stops' = n_stops + 1
    /\ pc' = "clear"
    /\ UNCHANGED <<done, key_val, key_old, speed, angle, new_path, collector,
                   keys_down, folders, images, actuators, releases, hist,
                   session_cmds, sessions, n_clears, ticks>>
    /\ UNCHANGED <<mixer, drivers, auto>>

ClearLists_Skipped ==
    /\ pc = "clear"
    /\ calls' = Append(calls, <<"clear", 0>>)
    /\ n_clears' = n_clears + 1
    /\ pc' = "quit"
    /\ UNCHANGED <<globals, new_path, collector, keys_down, storage,
                   actuators, releases, hist, session_cmds, sessions, n_stops,
                   ticks>>
    /\ UNCHANGED <<mixer, drivers, auto>>

\* Mutant of ClearLists: angle_list is not cleared.
ClearLists_KeepsAngles ==
    /\ pc = "clear"
    /\ img_list' = <<>>
    /\ speed_list' = <<>>
    /\ calls' = Append(calls, <<"clear", 0>>)
    /\ n_clears' = n_clears + 1
    /\ pc' = "quit"
    /\ UNCHANGED <<globals, new_path, folder_index, angle_list, keys_down,
                   storage, actuators, releases, hist, session_cmds, sessions,
                   n_stops, ticks>>
    /\ UNCHANGED <<mixer, drivers, auto>>

\* Lines 198-200: the three lists are cleared.
ClearLists ==
    /\ pc = "clear"
    /\ img_list' = <<>>
    /\ speed_list' = <<>>
    /\ angle_list' = <<>>
    /\ calls' = Append(calls, <<"clear", 0>>)
    /\ n_clears' = n_clears + 1
    /\ pc' = "quit"
    /\ UNCHANGED <<globals, new_path, folder_index, keys_down, storage,
                   actuators, releases, hist, session_cmds, sessions, n_stops,
                   ticks>>
    /\ UNCHANGED <<mixer, drivers, auto>>

\* The speed the motor driver was last given, with its direction as the sign.
MotorSigned(m) == IF m[1] = "backward" THEN -m[2] ELSE m[2]

\* Line 203 with done = 0: the loop goes round.
NextTick ==
    /\ pc = "quit"
    /\ done = 0
    /\ hist' = LastTwo(Append(hist, [key |-> Polled, speed |-> speed, angle |-> angle,
                                      down |-> keys_down]))
    /\ session_cmds' = IF record = 2
                       THEN Append(session_cmds, <<MotorSigned(motor_out), servo_out>>)
                       ELSE session_cmds
    /\ ticks' = ticks + 1
    /\ pc' = "poll"
    /\ UNCHANGED <<globals, new_path, collector, keys_down, storage, actuators,
                   releases, calls, sessions, n_stops, n_clears>>
    /\ UNCHANGED <<mixer, drivers, auto>>

\* Mutant of Terminate: the camera is not released.
Terminate_NoCameraRelease ==
    /\ pc = "quit"
    /\ done # 0
    /\ motor_out' = <<"stop", 0>>
    /\ motor_released' = motor_released + 1
    /\ servo_out' = set_angle(0)
    /\ servo_detached' = servo_detached + 1
    /\ calls' = calls \o <<(<<"stop", 0>>), (<<"motor_release", 0>>),
                           (<<"set_angle", 0>>), (<<"detach", 0>>)>>
    /\ pc' = "done"
    /\ UNCHANGED <<globals, new_path, collector, keys_down, storage,
                   right_steering_error_handling, camera_released, history>>
    /\ UNCHANGED <<mixer, drivers, auto>>

\* Lines 203-209 with done # 0: stop and release the motor, centre and detach
\* the servo, release the camera, break.
Terminate ==
    /\ pc = "quit"
    /\ done # 0
    /\ motor_out' = <<"stop", 0>>
    /\ motor_released' = motor_released + 1
    /\ servo_out' = set_angle(0)
    /\ servo_detached' = servo_detached + 1
    /\ camera_released' = camera_released + 1
    /\ calls' = calls \o <<(<<"stop", 0>>), (<<"motor_release", 0>>),
                           (<<"set_angle", 0>>), (<<"detach", 0>>),
                           (<<"camera_release", 0>>)>>
    /\ pc' = "done"
    /\ UNCHANGED <<globals, new_path, collector, keys_down, storage,
                   right_steering_error_handling, history>>
    /\ UNCHANGED <<mixer, drivers, auto>>

\* An external interruption (KeyboardInterrupt) arrives inside the loop: main()
\* has no try/except/finally, so the program ends where it stands.
Interrupt ==
    /\ pc \notin {"done", "aborted"}
    /\ pc' = "aborted"
    /\ UNCHANGED <<globals, new_path, collector, keys_down, storage, actuators,
                   releases, calls, history>>
    /\ UNCHANGED <<mixer, drivers, auto>>

\* An outside actor deletes a session folder, with its images, between sessions.
DeleteFolder ==
    /\ pc = "poll"
    /\ record = 0
    /\ \E i \in folders :
        /\ folders' = folders \ {i}
        /\ images' = {im \in images : im[1] # i}
    /\ UNCHANGED <<pc, globals, new_path, collector, keys_down, log_files,
                   actuators, releases, calls, history>>
    /\ UNCHANGED <<mixer, drivers, auto>>

Next ==
    \/ GetKeyPress
    \/ UpdateMovementControls
    \/ Actuate
    \/ StartRecording
    \/ CollectData
    \/ CaptureFails
    \/ SaveLog
    \/ ClearLists
    \/ NextTick
    \/ Terminate
    \/ Interrupt
    \/ DeleteFolder

Spec == Init /\ [][Next]_vars

\* ------------------------------------------------------- the claims

\* The collaborator calls of the latest tick with the given name.
CallsNamed(n) == {i \in 1..Len(calls) : calls[i][1] = n}

\* The latest tick created a session folder (IDLE -> ARMED happened in it).
ArmedThisTick == CallsNamed("makedirs") # {}

\* C1: a run of ticks polling 'r' that starts in the idle state arms exactly one
\* session: the first tick of the run (the previous tick polled another key or
\* none) takes record from 0 to 1, and no later tick of the run changes record.
C1_HeldToggleArmsOnce ==
    (pc = "actuate" /\ Polled = "r") =>
        /\ (PrevKey # "r" /\ record \in {0, 1}) => record = 1
        /\ PrevKey = "r" => record \in {0, 2}

\* C2: when a session is flushed, log_<n>.csv holds one row per tick the session
\* was ACTIVE, in capture order, row i carrying the speed and the angle the
\* actuators held at the end of the i-th ACTIVE tick and naming the i-th image,
\* and the session folder holds exactly as many images.
C2_FlushedRowsMatchActiveTicks ==
    pc = "clear" =>
        /\ folder_index \in DOMAIN log_files
        /\ Len(log_files[folder_index]) = Len(session_cmds)
        /\ \A i \in 1..Len(session_cmds) :
              /\ log_files[folder_index][i][2] = session_cmds[i][1]
              /\ log_files[folder_index][i][3] = session_cmds[i][2]
              /\ log_files[folder_index][i][1][1] = new_path[1]
              /\ log_files[folder_index][i][1][2] = i - 1
              /\ log_files[folder_index][i][1] \in images
        /\ \A i \in 1..(Len(session_cmds) - 1) :
              log_files[folder_index][i][1][3] < log_files[folder_index][i + 1][1][3]
        /\ Cardinality({im \in images : im[1] = new_path[1]}) = Len(session_cmds)

\* C2 witness: a session that was ACTIVE for two ticks under different commands
\* has just been written.
C2_Witness ==
    /\ pc = "clear"
    /\ Len(session_cmds) = 2
    /\ session_cmds[1] # session_cmds[2]

C4_ReleaseReenablesToggle ==
    (pc = "actuate" /\ Polled = "r" /\ PrevKey = NoKey) => record \in {1, 3}

\* C5 as stated: in the tick that allocates the session folder no sample is
\* captured or logged.
C5_NoSampleInArmingTick ==
    ArmedThisTick => (img_list = <<>> /\ CallsNamed("get_img") = {})

\* C5 amended: the tick that allocates the session folder goes on to ACTIVE and
\* captures and logs the session's first sample, after the folder was created.
C5_FirstSampleInArmingTick ==
    (ArmedThisTick /\ pc = "quit") =>
        /\ record = 2
        /\ Len(img_list) = 1
        /\ img_list[1] = ImgName(new_path[1], 0, ticks)
        /\ img_list[1] \in images
        /\ new_path[1] \in folders
        /\ \E i \in CallsNamed("makedirs") : \E j \in CallsNamed("get_img") : i < j

\* C5 witness: the end of a tick that armed a session.
C5_Witness ==
    /\ ArmedThisTick
    /\ pc = "quit"
    /\ Len(img_list) = 1

\* C6: a toggle while ACTIVE ends the tick in IDLE; the label file is written
\* from the whole buffer before the buffer is cleared; the lists are cleared
\* once per ACTIVE -> IDLE transition and shrink at no other step.
C6_FlushThenClearOnce ==
    /\ [](pc = "save" => (record = 3 /\ n_clears = n_stops))
    /\ [](pc = "clear" =>
            /\ record = 0
            /\ n_clears = n_stops - 1
            /\ folder_index \in DOMAIN log_files
            /\ log_files[folder_index] = Rows(img_list, speed_list, angle_list)
            /\ Len(img_list) = Len(session_cmds))
    /\ [](pc \in {"poll", "quit", "done"} => n_clears = n_stops)
    /\ [][(\/ Len(img_list') < Len(img_list)
           \/ Len(speed_list') < Len(speed_list)
           \/ Len(angle_list') < Len(angle_list)
           \/ n_clears' # n_clears)
          => (/\ pc = "clear"
              /\ n_clears' = n_clears + 1
              /\ img_list' = <<>> /\ speed_list' = <<>> /\ angle_list' = <<>>
              /\ record' = 0)]_vars

\* C6 witness: a session of two samples has been flushed and cleared.
C6_Witness ==
    /\ pc = "quit"
    /\ CallsNamed("clear") # {}
    /\ n_clears = 1
    /\ folder_index \in DOMAIN log_files
    /\ Len(log_files[folder_index]) = 2
    /\ img_list = <<>>

\* C7: the loop ends (break) only with the motor release, the steering detach
\* and the camera release each called exactly once, in the QUIT tick, and
\* without save_log in that tick: an open session keeps its unwritten buffer.
C7_QuitReleasesOnce ==
    /\ pc # "done" =>
          (motor_released = 0 /\ servo_detached = 0 /\ camera_released = 0)
    /\ pc = "done" =>
          /\ Polled = "k"
          /\ motor_released = 1 /\ servo_detached = 1 /\ camera_released = 1
          /\ Cardinality(CallsNamed("motor_release")) = 1
          /\ Cardinality(CallsNamed("detach")) = 1
          /\ Cardinality(CallsNamed("camera_release")) = 1
          /\ CallsNamed("save_log") = {}
          /\ record \in {0, 2}
          /\ record = 2 => (/\ Len(sessions) = n_stops + 1
                            /\ img_list # <<>>
                            /\ \A i \in DOMAIN log_files :
                                  \A j \in 1..Len(log_files[i]) :
                                     log_files[i][j][1] # Last(img_list))

\* C7 witness: QUIT taken in the middle of a session.
C7_Witness ==
    /\ pc = "done"
    /\ record = 2
    /\ Len(img_list) >= 2

\* C8: however the loop ends, by QUIT, by an interruption or by a collaborator
\* failure, the actuator and camera release steps have been reached.
C8_ReleaseOnEveryExit ==
    pc \in {"done", "aborted"} =>
        (motor_released >= 1 /\ servo_detached >= 1 /\ camera_released >= 1)

\* ----------------------------------------- the poll under any keyboard state

\* The first tick of the loop with any set of keys held down together.
InitPoll ==
    /\ pc = "poll"
    /\ done = 0
    /\ record = 0
    /\ key_val = NoKey
    /\ key_old = NoKey
    /\ speed = 0
    /\ angle = 0
    /\ right_steering_error_handling = 0
    /\ new_path = <<>>
    /\ folder_index = 0
    /\ img_list = <<>>
    /\ speed_list = <<>>
    /\ angle_list = <<>>
    /\ keys_down \in SUBSET Keys
    /\ folders \in InitialFolders
    /\ images = {}
    /\ log_files = <<>>
    /\ motor_out = <<"stop", 0>>
    /\ servo_out = 0
    /\ motor_released = 0
    /\ servo_detached = 0
    /\ camera_released = 0
    /\ calls = <<>>
    /\ hist = <<>>
    /\ session_cmds = <<>>
    /\ sessions = <<>>
    /\ n_stops = 0
    /\ n_clears = 0
    /\ ticks = 0
    /\ MixerIdle
    /\ DriversIdle
    /\ AutoIdle

\* Lines 170-171 with the keys that are held down.
PollHeld == Poll(keys_down)

NextPoll ==
    \/ PollHeld
    \/ UpdateMovementControls
    \/ Actuate
    \/ StartRecording
    \/ CollectData
    \/ Terminate

SpecPoll == InitPoll /\ [][NextPoll]_vars

\* The first key held, in the order the specification gives.
SpecOrderFirst(ks) ==
    IF "RIGHT" \in ks THEN "RIGHT"
    ELSE IF "LEFT" \in ks THEN "LEFT"
    ELSE IF "UP" \in ks THEN "UP"
    ELSE IF "DOWN" \in ks THEN "DOWN"
    ELSE IF "s" \in ks THEN "s"
    ELSE IF "k" \in ks THEN "k"
    ELSE IF "r" \in ks THEN "r"
    ELSE NoKey

\* The first key held, in the order of the key list of the program.
CodeOrderFirst(ks) ==
    IF "RIGHT" \in ks THEN "RIGHT"
    ELSE IF "LEFT" \in ks THEN "LEFT"
    ELSE IF "UP" \in ks THEN "UP"
    ELSE IF "DOWN" \in ks THEN "DOWN"
    ELSE IF "r" \in ks THEN "r"
    ELSE IF "s" \in ks THEN "s"
    ELSE IF "k" \in ks THEN "k"
    ELSE NoKey

Arrows == {"RIGHT", "LEFT", "UP", "DOWN"}

\* C9 as stated: the command of the tick is the first held key in the order
\* RIGHT > LEFT > UP > DOWN > s > k > r.
C9_SpecPriority ==
    (pc = "update" /\ keys_down # {}) => key_val = SpecOrderFirst(keys_down)

\* C9 amended: the command of the tick is the first held key in the order
\* RIGHT > LEFT > UP > DOWN > r > s > k; 'r' held together with 's' or 'k'
\* (and no arrow key) toggles recording and neither stops the car nor quits.
C9_CodePriority ==
    /\ (pc = "update" /\ keys_down # {}) => key_val = CodeOrderFirst(keys_down)
    /\ (pc = "actuate" /\ "r" \in keys_down /\ keys_down \cap Arrows = {}) =>
          (record = 1 /\ done = 0 /\ key_val = "r")
    /\ (pc = "actuate" /\ "r" \notin keys_down /\ keys_down \cap Arrows = {}
          /\ "s" \in keys_down) => (record = 0 /\ done = 0)
    /\ (pc = "actuate" /\ keys_down \cap (Arrows \cup {"r", "s"}) = {}
          /\ "k" \in keys_down) => done = 1

\* C9 witness: 'r', 's' and 'k' held together, and the tick armed a session.
C9_Witness ==
    /\ pc = "quit"
    /\ keys_down = {"r", "s", "k"}
    /\ record = 2
    /\ done = 0

\* ------------------------------------------------------ the command table

\* The speed commanded in the previous tick (the initial speed before the first).
PrevSpeed == IF hist = <<>> THEN 0 ELSE Last(hist).speed

\* C10 as stated: RIGHT -> (0.6, 0.6), LEFT -> (0.6, -0.6), UP -> (0.4, 0),
\* DOWN -> (-0.4, 0), STOP -> (0, 0).
C10_SpecTable ==
    pc = "actuate" =>
        /\ Polled = "RIGHT" => (speed = 6 /\ angle = 6)
        /\ Polled = "LEFT" => (speed = 6 /\ angle = -6)
        /\ Polled = "UP" => (speed = 4 /\ angle = 0)
        /\ Polled = "DOWN" => (speed = -4 /\ angle = 0)
        /\ Polled = "s" => (speed = 0 /\ angle = 0)

\* C10 amended: RIGHT -> (speed unchanged, 0.7), LEFT -> (speed unchanged, -0.5),
\* UP -> (1, 0.1), DOWN -> (-1, 0.1), STOP -> (0, 0); UP, RIGHT, STOP on three
\* consecutive ticks command (1, 0.1), (1, 0.7), (0, 0) in that order.
C10_CodeTable ==
    pc = "actuate" =>
        /\ Polled = "RIGHT" => (speed = PrevSpeed /\ angle = 7)
        /\ Polled = "LEFT" => (speed = PrevSpeed /\ angle = -5)
        /\ Polled = "UP" => (speed = 10 /\ angle = 1)
        /\ Polled = "DOWN" => (speed = -10 /\ angle = 1)
        /\ Polled = "s" => (speed = 0 /\ angle = 0)
        /\ (Len(hist) = 2 /\ hist[1].key = "UP" /\ hist[2].key = "RIGHT"
              /\ Polled = "s") =>
              /\ <<hist[1].speed, hist[1].angle>> = <<10, 1>>
              /\ <<hist[2].speed, hist[2].angle>> = <<10, 7>>
              /\ <<speed, angle>> = <<0, 0>>

\* C10 witness: the third tick of UP, RIGHT, STOP has updated the command.
C10_Witness ==
    /\ pc = "actuate"
    /\ Len(hist) = 2
    /\ hist[1].key = "UP"
    /\ hist[2].key = "RIGHT"
    /\ Polled = "s"


(***************************************************************************)
(* Step3-Implementation/dc_motors_module.py: the differential-drive mixer. *)
(***************************************************************************)

\* Largest |argument| (tenths) handed to a mixer or actuator call.
MaxArg == 15

ArgGrid == (0 - MaxArg)..MaxArg

\* max(0, min(1, x))
Clamp01(x) == IF x < 0 THEN 0 ELSE IF x > 10 THEN 10 ELSE x

MixRight_Plus(s, a) == s + a

\* speed_right before the output clamp; s and a are already clamped.
MixRight(s, a) == s - a

MixLeft_NoAngle(s, a) == s

\* speed_left before the output clamp; s and a are already clamped.
MixLeft(s, a) == s + a

\* move_forward: the speed the method mixes, after its input clamp.
ForwardSpeed(sp) == Clamp01(sp)

\* move_backward: "speed = -speed", then the same input clamp.
BackwardSpeed(sp) == Clamp01(0 - sp)

\* DcMotorController.move_forward(speed, angle)
MoveForward ==
    /\ mix_pc = "called"
    /\ motors_right' = <<"forward", Clamp01(MixRight(ForwardSpeed(mix_speed), Clamp(mix_angle)))>>
    /\ motors_left' = <<"forward", Clamp01(MixLeft(ForwardSpeed(mix_speed), Clamp(mix_angle)))>>
    /\ mix_pc' = "move_forward"
    /\ UNCHANGED <<mix_speed, mix_angle>>
    /\ UNCHANGED <<loop, drivers, auto>>

\* DcMotorController.move_backward(speed, angle)
MoveBackward ==
    /\ mix_pc = "called"
    /\ motors_right' = <<"backward", Clamp01(MixRight(BackwardSpeed(mix_speed), Clamp(mix_angle)))>>
    /\ motors_left' = <<"backward", Clamp01(MixLeft(BackwardSpeed(mix_speed), Clamp(mix_angle)))>>
    /\ mix_pc' = "move_backward"
    /\ UNCHANGED <<mix_speed, mix_angle>>
    /\ UNCHANGED <<loop, drivers, auto>>

\* A constructed DcMotorController and the arguments of the call about to be
\* made on it.
InitMixer ==
    /\ LoopInit
    /\ folders = {}
    /\ DriversIdle
    /\ AutoIdle
    /\ mix_pc = "called"
    /\ mix_speed \in ArgGrid
    /\ mix_angle \in ArgGrid
    /\ motors_right = <<"stop", 0>>
    /\ motors_left = <<"stop", 0>>

NextMixer ==
    \/ MoveForward
    \/ MoveBackward

SpecMixer == InitMixer /\ [][NextMixer]_vars

\* C11: for every speed and angle of the grid, move_forward sends
\* right = clamp(clamp(speed,0,1) - clamp(angle,-1,1), 0, 1) and
\* left = clamp(clamp(speed,0,1) + clamp(angle,-1,1), 0, 1) on the forward
\* primitive, both within [0,1]; speed 0.6 with angle 0.6 gives right 0.0 and
\* left 1.0.
C11_ForwardMix ==
    mix_pc = "move_forward" =>
        LET s == IF mix_speed < 0 THEN 0 ELSE IF mix_speed > 10 THEN 10 ELSE mix_speed
            a == IF mix_angle < -10 THEN -10 ELSE IF mix_angle > 10 THEN 10 ELSE mix_angle
            r == IF s - a < 0 THEN 0 ELSE IF s - a > 10 THEN 10 ELSE s - a
            l == IF s + a < 0 THEN 0 ELSE IF s + a > 10 THEN 10 ELSE s + a
        IN  /\ motors_right = <<"forward", r>>
            /\ motors_left = <<"forward", l>>
            /\ motors_right[2] \in 0..10
            /\ motors_left[2] \in 0..10
            /\ (mix_speed = 6 /\ mix_angle = 6) =>
                   (motors_right[2] = 0 /\ motors_left[2] = 10)

C11_Witness ==
    /\ mix_pc = "move_forward"
    /\ mix_speed = 6
    /\ mix_angle = 6
    /\ motors_right = <<"forward", 0>>
    /\ motors_left = <<"forward", 10>>


\* The speed a finished mixer call has mixed, after the method's input clamp.
MixedSpeed ==
    IF mix_pc = "move_forward" THEN ForwardSpeed(mix_speed)
                               ELSE BackwardSpeed(mix_speed)

\* Neither wheel command was changed by the output clamp.
Unsaturated ==
    /\ MixedSpeed - mix_angle \in 0..10
    /\ MixedSpeed + mix_angle \in 0..10

\* C12: for every speed and angle within [-1,1], whenever neither wheel
\* command of the mixer (move_forward or move_backward) is changed by the
\* output clamp, left - right equals 2 * angle.
C12_UnsaturatedDifference ==
    (/\ mix_pc \in {"move_forward", "move_backward"}
     /\ mix_speed \in -10..10
     /\ mix_angle \in -10..10
     /\ Unsaturated)
        => motors_left[2] - motors_right[2] = 2 * mix_angle

C12_Witness ==
    /\ mix_pc = "move_forward"
    /\ mix_speed = 5
    /\ mix_angle = 2
    /\ Unsaturated
    /\ motors_right[2] = 3
    /\ motors_left[2] = 7

\* C13: move_backward(speed, 0) with a speed s of (0,1] commands both wheels
\* backward with magnitude s.
C13_BackwardMagnitude ==
    (mix_pc = "move_backward" /\ mix_angle = 0 /\ mix_speed \in 1..10)
        => /\ motors_right = <<"backward", mix_speed>>
           /\ motors_left = <<"backward", mix_speed>>


(***************************************************************************)
(* "Step1-Data-Collection - Copy"/motor_module.py: MotorController over     *)
(* RPi.GPIO, one action per pin write.                                      *)
(***************************************************************************)

Abs(x) == IF x < 0 THEN 0 - x ELSE x

\* duty_cycle = abs(speed) * 100, percent
DutyCycle(sp) == Abs(sp) * 10

\* move(speed): clamp, then self.pwm.ChangeDutyCycle(duty_cycle)
MoveDuty ==
    /\ drv_pc = "idle"
    /\ \E sp \in ArgGrid :
          /\ drv_arg' = Clamp(sp)
          /\ pwm_duty' = DutyCycle(Clamp(sp))
    /\ drv_pc' = "move_in1"
    /\ UNCHANGED <<in1, in2, servo_duty>>
    /\ UNCHANGED <<loop, mixer, auto>>

\* move(speed): GPIO.output(self.in1, ...)
MoveIn1 ==
    /\ drv_pc = "move_in1"
    /\ in1' = IF drv_arg < 0 THEN "LOW" ELSE "HIGH"
    /\ drv_pc' = "move_in2"
    /\ UNCHANGED <<drv_arg, pwm_duty, in2, servo_duty>>
    /\ UNCHANGED <<loop, mixer, auto>>

\* move(speed): GPIO.output(self.in2, ...)
MoveIn2 ==
    /\ drv_pc = "move_in2"
    /\ in2' = IF drv_arg < 0 THEN "HIGH" ELSE "LOW"
    /\ drv_pc' = "idle"
    /\ UNCHANGED <<drv_arg, pwm_duty, in1, servo_duty>>
    /\ UNCHANGED <<loop, mixer, auto>>

\* stop(): self.pwm.ChangeDutyCycle(0)
StopDuty ==
    /\ drv_pc = "idle"
    /\ pwm_duty' = 0
    /\ drv_pc' = "stop_in1"
    /\ UNCHANGED <<drv_arg, in1, in2, servo_duty>>
    /\ UNCHANGED <<loop, mixer, auto>>

\* stop(): GPIO.output(self.in1, GPIO.LOW)
StopIn1 ==
    /\ drv_pc = "stop_in1"
    /\ in1' = "LOW"
    /\ drv_pc' = "stop_in2"
    /\ UNCHANGED <<drv_arg, pwm_duty, in2, servo_duty>>
    /\ UNCHANGED <<loop, mixer, auto>>

\* stop(): GPIO.output(self.in2, GPIO.LOW)
StopIn2 ==
    /\ drv_pc = "stop_in2"
    /\ in2' = "LOW"
    /\ drv_pc' = "idle"
    /\ UNCHANGED <<drv_arg, pwm_duty, in1, servo_duty>>
    /\ UNCHANGED <<loop, mixer, auto>>

InitPins ==
    /\ LoopInit
    /\ folders = {}
    /\ MixerIdle
    /\ DriversIdle
    /\ AutoIdle

NextPins ==
    \/ MoveDuty
    \/ MoveIn1
    \/ MoveIn2
    \/ StopDuty
    \/ StopIn1
    \/ StopIn2

SpecPins == InitPins /\ [][NextPins]_vars

\* C14: in no reachable state of the motor driver, the states between the
\* pin writes of one move call included, are the forward input and the
\* backward input of the motor asserted together, and the magnitude sent
\* is never negative.
C14_NeverBothAsserted ==
    /\ ~(in1 = "HIGH" /\ in2 = "HIGH")
    /\ pwm_duty >= 0


(***************************************************************************)
(* The data-collection loop again: capture, termination, sessions.         *)
(***************************************************************************)

\* C15: in collect_data the capture completes before the row is appended:
\* every logged image reference names a captured image, a row is appended
\* only by a collect step whose capture succeeded, and a collect step whose
\* capture fails appends nothing to the three lists for that tick.
C15_CaptureBeforeRow ==
    /\ [](\A i \in 1..Len(img_list) : img_list[i] \in images)
    /\ [][(\/ Len(img_list') > Len(img_list)
           \/ Len(speed_list') > Len(speed_list)
           \/ Len(angle_list') > Len(angle_list))
          => (/\ pc = "collect"
              /\ CallsNamed("get_img")' # {}
              /\ Last(img_list') \in images'
              /\ img_list' = Append(img_list, Last(img_list'))
              /\ speed_list' = Append(speed_list, speed)
              /\ angle_list' = Append(angle_list, angle))]_vars
    /\ [][(pc = "collect" /\ CallsNamed("get_img_raises")' # {})
          => UNCHANGED <<img_list, speed_list, angle_list, images>>]_vars

\* C15 witness: a capture fails in a session that already holds a row.
C15_Witness ==
    /\ pc = "aborted"
    /\ CallsNamed("get_img_raises") # {}
    /\ Len(img_list) >= 1
    /\ Len(speed_list) = Len(img_list)
    /\ \A i \in 1..Len(img_list) : img_list[i] \in images


\* Position in calls of the first call of the release sequence.
ReleaseStart == Len(calls) - 4

\* C16: the loop ends only in the final step of a tick whose command is QUIT,
\* every QUIT tick is the last tick, the quit check comes after the actuation
\* and recording steps of that tick, and no actuation or capture call follows
\* the release sequence.
C16_QuitTickIsLast ==
    /\ [][pc' = "done" => (pc = "quit" /\ Polled = "k" /\ done # 0)]_vars
    /\ [][(Polled = "k" /\ pc = "quit")
          => (pc' \in {"done", "aborted"} /\ ticks' = ticks)]_vars
    /\ [](Polled = "k" /\ pc \notin {"poll", "update", "aborted"} => done # 0)
    /\ [](pc = "quit" => /\ CallsNamed("move") # {}
                         /\ CallsNamed("set_angle") # {}
                         /\ record = 2 => CallsNamed("get_img") # {})
    /\ [](pc = "done" =>
            /\ Len(calls) >= 7
            /\ calls[ReleaseStart][1] = "stop"
            /\ calls[Len(calls)][1] = "camera_release"
            /\ calls[1][1] = "move"
            /\ \A i \in CallsNamed("move") \cup CallsNamed("get_img") :
                  i < ReleaseStart
            /\ \A i \in CallsNamed("set_angle") :
                  i < ReleaseStart \/ (i = ReleaseStart + 2 /\ calls[i][2] = 0))
    /\ [][pc # "done"]_vars

\* C16 witness: the loop has ended on a QUIT tick that came after other
\* ticks and that still actuated and captured before the release sequence.
C16_Witness ==
    /\ pc = "done"
    /\ Polled = "k"
    /\ ticks >= 2
    /\ CallsNamed("get_img") # {}
    /\ calls[ReleaseStart][1] = "stop"


(***************************************************************************)
(* The Step1 actuators called with arguments inside and outside [-1,1].    *)
(***************************************************************************)

\* "Step1-Data-Collection - Copy"/steering_module.py:
\* duty_cycle = 2 + (ratio + 1) * 5 percent, here in half percents.
ServoDuty(ratio) == 4 + (Clamp(ratio) + 10)

\* MotorController.move(speed), gpiozero variant
CallMove ==
    /\ drv_pc = "called"
    /\ motor_out' = MotorMove(drv_arg)
    /\ drv_pc' = "move"
    /\ UNCHANGED <<pc, globals, new_path, keys_down, collector, storage,
                   servo_out, right_steering_error_handling, releases, calls,
                   history, mixer, drv_arg, pwm_duty, in1, in2, servo_duty,
                   auto>>

\* SteeringController.set_angle(ratio), gpiozero variant
CallSetAngle ==
    /\ drv_pc = "called"
    /\ servo_out' = set_angle(drv_arg)
    /\ drv_pc' = "set_angle"
    /\ UNCHANGED <<pc, globals, new_path, keys_down, collector, storage,
                   motor_out, right_steering_error_handling, releases, calls,
                   history, mixer, drv_arg, pwm_duty, in1, in2, servo_duty,
                   auto>>

\* SteeringController.set_angle(ratio), RPi.GPIO variant
CallSetAnglePwm ==
    /\ drv_pc = "called"
    /\ servo_duty' = ServoDuty(drv_arg)
    /\ drv_pc' = "set_angle_pwm"
    /\ UNCHANGED <<loop, mixer, drv_arg, pwm_duty, in1, in2, auto>>

\* Constructed actuators and the argument of the one call about to be made.
InitClamp ==
    /\ LoopInit
    /\ folders = {}
    /\ MixerIdle
    /\ drv_pc = "called"
    /\ drv_arg \in ArgGrid
    /\ pwm_duty = 0
    /\ in1 = "LOW"
    /\ in2 = "LOW"
    /\ servo_duty = 0
    /\ AutoIdle

NextClamp ==
    \/ CallMove
    \/ CallSetAngle
    \/ CallSetAnglePwm

SpecClamp == InitClamp /\ [][NextClamp]_vars

\* clamp(x, -1, 1) written out.
Clamped == IF drv_arg < -10 THEN -10 ELSE IF drv_arg > 10 THEN 10 ELSE drv_arg

\* C17: an argument outside [-1,1] is clamped, never rejected: move sends
\* |clamp(speed,-1,1)|, within [0,1], on the backward primitive when the
\* clamped speed is negative and on the forward primitive otherwise, and
\* set_angle sends clamp(ratio,-1,1).
C17_ClampedNeverRejected ==
    /\ drv_pc = "called" =>
          (ENABLED CallMove /\ ENABLED CallSetAngle /\ ENABLED CallSetAnglePwm)
    /\ drv_pc = "move" =>
          /\ motor_out = IF Clamped < 0 THEN <<"backward", 0 - Clamped>>
                                        ELSE <<"forward", Clamped>>
          /\ motor_out[2] \in 0..10
    /\ drv_pc = "set_angle" => servo_out = Clamped
    /\ drv_pc = "set_angle_pwm" => servo_duty = 14 + Clamped

\* C17 witness: move(-1.5) has driven backward at full magnitude.
C17_Witness ==
    /\ drv_pc = "move"
    /\ drv_arg = 0 - MaxArg
    /\ motor_out = <<"backward", 10>>


(***************************************************************************)
(* The loop polled with the record key and one other key only, long enough *)
(* for two whole sessions.                                                 *)
(***************************************************************************)

\* Ticks of the loop with the two keys.
MaxSessionTicks == 7

SessionKeys == {"r", "s", NoKey}

\* Lines 170-171: get_key_press() with 'r', 's' or nothing pressed.
GetKeyPressSession ==
    /\ ticks < MaxSessionTicks
    /\ \E k \in SessionKeys : Poll(IF k = NoKey THEN {} ELSE {k})

NextSessions ==
    \/ GetKeyPressSession
    \/ UpdateMovementControls
    \/ Actuate
    \/ StartRecording
    \/ CollectData
    \/ SaveLog
    \/ ClearLists
    \/ NextTick
    \/ DeleteFolder

SpecSessions == Init /\ [][NextSessions]_vars

\* The image references of a written label file.
FileImages(f) == {log_files[f][j][1] : j \in 1..Len(log_files[f])}

BufferImages == {img_list[i] : i \in 1..Len(img_list)}

\* C18: samples are never shared across sessions: the buffer is empty when
\* a session is armed and at its first capture, the label file flushed for a
\* session holds only rows appended during that session (one per tick since
\* the arming), no row of a written file is in the buffer of an open session
\* and no row is in the label files of two sessions.
C18_SessionsShareNoSample ==
    /\ (pc = "arm" \/ (pc = "collect" /\ CallsNamed("makedirs") # {}))
          => (img_list = <<>> /\ speed_list = <<>> /\ angle_list = <<>>)
    /\ pc = "clear" =>
          /\ Len(log_files[folder_index]) = Len(session_cmds)
          /\ \A j \in 1..Len(log_files[folder_index]) :
                /\ log_files[folder_index][j][1][1] = Last(sessions)
                /\ log_files[folder_index][j][1][3] =
                      ticks - Len(session_cmds) + j - 1
    /\ record \in {1, 2, 3} =>
          \A f \in DOMAIN log_files : FileImages(f) \cap BufferImages = {}
    /\ \A f \in DOMAIN log_files : \A g \in DOMAIN log_files :
          f # g => FileImages(f) \cap FileImages(g) = {}

\* C18 witness: the label files of two sessions are on storage, each with
\* rows.
C18_Witness ==
    /\ Len(sessions) = 2
    /\ pc = "clear"
    /\ \E f \in DOMAIN log_files : \E g \in DOMAIN log_files :
          /\ f # g
          /\ Len(log_files[f]) >= 2
          /\ Len(log_files[g]) >= 2

\* C19: within one session no image file name is produced twice: the sample
\* count in the name of the i-th image is i - 1, strictly increasing, so the
\* names differ whatever their timestamps are, and no capture has replaced
\* an image of the session's folder.
C19_SampleCountNeverRepeats ==
    /\ \A i \in 1..Len(img_list) :
          /\ img_list[i][1] = new_path[1]
          /\ img_list[i][2] = i - 1
    /\ \A i \in 1..Len(img_list) : \A j \in 1..Len(img_list) :
          i < j => /\ img_list[i][2] < img_list[j][2]
                   /\ <<img_list[i][1], img_list[i][2]>> #
                         <<img_list[j][1], img_list[j][2]>>
    /\ record = 2 =>
          Cardinality({im \in images : im[1] = new_path[1]}) = Len(img_list)

\* C19 witness: the third image of a session carries sample count 2.
C19_Witness ==
    /\ Len(img_list) >= 3
    /\ img_list[3][2] = 2
    /\ img_list[3] \in images

\* C20: the label file written at the flush carries the index of the folder
\* created at the arming of the same session, every image reference in it
\* lies under that folder, and the folder index does not change between the
\* arming and the flush.
C20_LogIndexMatchesFolder ==
    /\ [](record \in {2, 3} =>
            /\ sessions # <<>>
            /\ folder_index = Last(sessions)
            /\ new_path = <<Last(sessions)>>
            /\ folder_index \in folders)
    /\ [](pc = "clear" =>
            /\ Cardinality(CallsNamed("save_log")) = 1
            /\ \A i \in CallsNamed("save_log") : calls[i][2] = Last(sessions)
            /\ Last(sessions) \in DOMAIN log_files
            /\ log_files[Last(sessions)] = Rows(img_list, speed_list, angle_list)
            /\ \A im \in FileImages(Last(sessions)) : im[1] = Last(sessions))
    /\ [][pc = "save" =>
            \A f \in DOMAIN log_files' :
               f # Last(sessions) =>
                  (f \in DOMAIN log_files /\ log_files'[f] = log_files[f])]_vars
    /\ [][folder_index' # folder_index => (pc = "arm" /\ record = 1)]_vars

\* C20 witness: a session armed on folder 1 has flushed log 1 with two rows.
C20_Witness ==
    /\ pc = "clear"
    /\ Last(sessions) = 1
    /\ 1 \in DOMAIN log_files
    /\ Len(log_files[1]) >= 2
    /\ \A im \in FileImages(1) : im[1] = 1


\* The argument of the latest set_angle call of the tick.
LastSetAngle ==
    calls[CHOOSE i \in CallsNamed("set_angle") :
             \A j \in CallsNamed("set_angle") : j <= i][2]

\* C21: in every tick the motor move and the steering set_angle for the
\* tick's speed and angle are issued before the tick's sample is captured
\* and logged, so the logged (speed, angle) is the command the actuators
\* already hold when the image is taken.
C21_ActuateBeforeCapture ==
    /\ [](\A g \in CallsNamed("get_img") :
            /\ \E m \in CallsNamed("move") : m < g
            /\ \E a \in CallsNamed("set_angle") : a < g
            /\ \A m \in CallsNamed("move") : m < g
            /\ \A a \in CallsNamed("set_angle") : a < g \/ pc = "done")
    /\ [][Len(img_list') > Len(img_list)
          => (/\ calls[1] = <<"move", Last(speed_list')>>
              /\ LastSetAngle = Last(angle_list')
              /\ Last(speed_list') = MotorSigned(motor_out)
              /\ Last(angle_list') = servo_out
              /\ UNCHANGED <<motor_out, servo_out>>)]_vars

\* C21 witness: a tick that trimmed the steering (two set_angle calls) and
\* then captured; the logged angle is the one the servo holds.
C21_Witness ==
    /\ pc = "quit"
    /\ record = 2
    /\ Cardinality(CallsNamed("set_angle")) = 2
    /\ CallsNamed("get_img") # {}
    /\ Last(angle_list) = servo_out
    /\ Last(speed_list) = MotorSigned(motor_out)


\* Images on storage under the folder of the session that is open.
SessionImages == {im \in images : new_path # <<>> /\ im[1] = new_path[1]}

\* C22: in every reachable state of the loop the image, speed and angle
\* lists have the same length, and while a session is open that length is
\* the number of images captured so far in the session.
C22_ListsStayAligned ==
    /\ Len(img_list) = Len(speed_list)
    /\ Len(speed_list) = Len(angle_list)
    /\ (record \in {2, 3} \/ pc = "clear")
          => Len(img_list) = Cardinality(SessionImages)

\* C22 witness: three rows and three images in an open session.
C22_Witness ==
    /\ record = 2
    /\ Len(img_list) = 3
    /\ Len(speed_list) = 3
    /\ Len(angle_list) = 3
    /\ Cardinality(SessionImages) = 3


(***************************************************************************)
(* The loop polled with 'r' held down together with another key.           *)
(***************************************************************************)

\* Ticks of the loop with held keys.
MaxHeldTicks == 4

\* Key states of a poll: nothing, one key, or 'r' together with another key.
HeldSets ==
    {{}} \cup {{k} : k \in Keys} \cup {{"r", k} : k \in Keys \ {"r"}}

\* Lines 170-171: get_key_press() with the keys that are down at that moment.
GetKeyPressHeld ==
    /\ ticks < MaxHeldTicks
    /\ \E ks \in HeldSets : Poll(ks)

NextHeld ==
    \/ GetKeyPressHeld
    \/ UpdateMovementControls
    \/ Actuate
    \/ StartRecording
    \/ CollectData
    \/ SaveLog
    \/ ClearLists
    \/ NextTick
    \/ Terminate

SpecHeld == Init /\ [][NextHeld]_vars

\* The keys the claim calls "a different key".
DifferentKeys == {"RIGHT", "LEFT", "UP", "DOWN", "s"}

\* The latest tick that polled a key polled a different key than 'r'.
DifferentKeyCame ==
    /\ hist # <<>>
    /\ \/ Last(hist).key \in DifferentKeys
       \/ /\ Len(hist) = 2
          /\ hist[1].key \in DifferentKeys
          /\ hist[2].key = NoKey

\* C23: after a toggle by 'r', a tick whose polled key is a different key
\* re-enables the toggle: the next tick that polls 'r' makes exactly one
\* further toggle transition, also when 'r' was held down the whole time,
\* and a tick that polls 'r' right after a tick that polled 'r' makes none.
C23_DifferentKeyReenablesToggle ==
    /\ [][(pc = "update" /\ Polled = "r" /\ sessions # <<>> /\ DifferentKeyCame)
          => (record \in {0, 2} /\ record' = record + 1)]_vars
    /\ [][(pc = "update" /\ Polled = "r" /\ hist # <<>> /\ Last(hist).key = "r")
          => record' = record]_vars
    /\ [][(pc # "update" /\ record' # record)
          => (\/ pc = "arm" /\ record = 1 /\ record' = 2
              \/ pc = "save" /\ record = 3 /\ record' = 0)]_vars

\* C23 witness: 'r' is held down for three ticks, RIGHT joins it in the
\* second one, and the third tick toggles again.
C23_Witness ==
    /\ pc = "actuate"
    /\ keys_down = {"r"}
    /\ Len(hist) = 2
    /\ hist[1].key = "r" /\ hist[1].down = {"r"}
    /\ hist[2].key = "RIGHT" /\ hist[2].down = {"r", "RIGHT"}
    /\ Len(sessions) = 1
    /\ record = 3


\* The angles sent to the servo in this tick, in order.
SetAngleArgs ==
    LET sa == SelectSeq(calls, LAMBDA c : c[1] = "set_angle")
    IN  [i \in 1..Len(sa) |-> sa[i][2]]

\* The actuation of the tick is over and the release sequence has not run.
Actuated == pc \in {"arm", "collect", "save", "clear", "quit"}

\* A negative angle was commanded and no zero-angle tick came since.
NegativeSinceZero ==
    /\ hist # <<>>
    /\ \/ Last(hist).angle < 0
       \/ Len(hist) = 2 /\ hist[1].angle < 0 /\ hist[2].angle # 0

\* No negative angle was commanded since the last zero-angle tick (or ever).
NoNegativeSinceZero ==
    \/ hist = <<>>
    \/ Last(hist).angle = 0
    \/ Len(hist) = 2 /\ hist[1].angle = 0 /\ hist[2].angle > 0
    \/ ticks <= 2 /\ \A i \in 1..Len(hist) : hist[i].angle >= 0

\* C24: after a tick that commands a negative angle, the first later tick
\* whose angle is 0 sends DEFAULT_ANGLE to the servo right before sending 0,
\* once per such return to zero; a tick with a nonzero angle, and a
\* zero-angle tick with no negative angle since the last zero-angle tick,
\* send only their own angle.
C24_SteeringTrim ==
    Actuated =>
        /\ (angle = 0 /\ NegativeSinceZero) => SetAngleArgs = <<DEFAULT_ANGLE, 0>>
        /\ (angle = 0 /\ NoNegativeSinceZero) => SetAngleArgs = <<0>>
        /\ angle # 0 => SetAngleArgs = <<angle>>
        /\ DEFAULT_ANGLE > 0

\* C24 witness: LEFT, then RIGHT, then a zero-angle tick that trims.
C24_Witness ==
    /\ Actuated
    /\ Len(hist) = 2
    /\ hist[1].angle < 0
    /\ hist[2].angle > 0
    /\ angle = 0
    /\ SetAngleArgs = <<DEFAULT_ANGLE, 0>>
    /\ servo_out = 0


\* C25: the record counter stays within {0,1,2,3}; it is 0 or 2 at every
\* tick boundary; 1 and 3 exist only inside a tick, between the update and
\* the arming or the flush of the same tick, so an 'r' edge never finds the
\* counter at 1 or 3.
C25_RecordCounterRange ==
    /\ record \in {0, 1, 2, 3}
    /\ pc \in {"poll", "update", "quit", "done"} => record \in {0, 2}
    /\ record = 1 => pc \in {"actuate", "arm", "aborted"}
    /\ record = 3 => pc \in {"actuate", "save", "aborted"}
    /\ (record \in {1, 3} /\ pc # "aborted") => Polled = "r"

\* C25 witness: the counter is 3 inside the tick of the second 'r' edge.
C25_Witness ==
    /\ record = 3
    /\ pc = "save"
    /\ Polled = "r"
    /\ Len(sessions) = 1


\* s is t with at most one element appended.
GrowsByAtMostOne(s, t) ==
    \/ t = s
    \/ Len(t) = Len(s) + 1 /\ t = Append(s, t[Len(t)])

\* C26: the recording state changes only in ticks whose polled key is 'r':
\* in a tick that polls a movement key, 's' or no key, the record counter
\* and the folder index do not change and the earlier rows of the buffer
\* stay as they are (one row is appended if recording is active).
C26_OnlyRecordKeyChangesRecording ==
    [][(IF pc = "poll" THEN Polled' ELSE Polled)
           \in {"RIGHT", "LEFT", "UP", "DOWN", "s", NoKey}
       => (/\ record' = record
           /\ folder_index' = folder_index
           /\ new_path' = new_path
           /\ sessions' = sessions
           /\ log_files' = log_files
           /\ GrowsByAtMostOne(img_list, img_list')
           /\ GrowsByAtMostOne(speed_list, speed_list')
           /\ GrowsByAtMostOne(angle_list, angle_list')
           /\ Len(img_list') > Len(img_list) => (record = 2 /\ pc = "collect"))]_vars

\* C26 witness: a no-key tick right after the arming 'r' tick has appended
\* its row and left the session as it was.
C26_Witness ==
    /\ pc = "quit"
    /\ Polled = NoKey
    /\ PrevKey = "r"
    /\ record = 2
    /\ Len(sessions) = 1
    /\ Len(img_list) = 2


\* C27: speed is persistent and angle is momentary: in a tick whose command
\* is not UP, DOWN or STOP the speed sent to the motor is the previous
\* tick's speed, and in a tick whose command is not RIGHT, LEFT, UP or DOWN
\* the angle commanded and logged is 0; 'r' and 'k' never change the speed.
C27_SpeedPersistsAngleMomentary ==
    Actuated =>
        /\ Polled \notin {"UP", "DOWN", "s"} =>
              /\ speed = PrevSpeed
              /\ calls[1] = <<"move", PrevSpeed>>
              /\ MotorSigned(motor_out) = PrevSpeed
        /\ Polled \notin {"RIGHT", "LEFT", "UP", "DOWN"} =>
              /\ angle = 0
              /\ SetAngleArgs[Len(SetAngleArgs)] = 0
              /\ servo_out = 0
              /\ (pc = "quit" /\ record = 2) => Last(angle_list) = 0
        /\ (pc = "quit" /\ record = 2) => Last(speed_list) = speed

\* C27 witness: 'r' right after DOWN keeps the backward speed and commands
\* and logs angle 0.
C27_Witness ==
    /\ pc = "quit"
    /\ record = 2
    /\ Polled = "r"
    /\ PrevKey = "DOWN"
    /\ PrevSpeed = -10
    /\ motor_out = <<"backward", 10>>
    /\ Last(hist).angle = 1
    /\ servo_out = 0
    /\ Last(angle_list) = 0
    /\ Last(speed_list) = -10


\* C28: every capture of a session writes under a folder created earlier in
\* the same session by the arming step: no capture happens while the session
\* folder does not exist, and the folder chosen at arming was not on storage
\* when it was created.
C28_CaptureUnderCreatedFolder ==
    /\ [](pc = "collect" =>
            /\ record = 2
            /\ sessions # <<>>
            /\ new_path = <<Last(sessions)>>
            /\ Last(sessions) \in folders)
    /\ [](\A g \in CallsNamed("get_img") :
            \A m \in CallsNamed("makedirs") : m < g)
    /\ [][Len(img_list') > Len(img_list)
          => (/\ Last(img_list')[1] = Last(sessions)
              /\ Last(img_list')[1] \in folders
              /\ Last(img_list') \in images')]_vars
    /\ [][(pc = "arm" /\ pc' # "aborted")
          => (/\ folder_index' \notin folders
              /\ folders' = folders \cup {folder_index'}
              /\ new_path' = <<folder_index'>>
              /\ sessions' = Append(sessions, folder_index')
              /\ calls' = Append(calls, <<"makedirs", folder_index'>>))]_vars

\* C28 witness: the scan skipped the existing folder 0, created folder 1
\* and the first capture went under it.
C28_Witness ==
    /\ pc = "quit"
    /\ CallsNamed("makedirs") # {}
    /\ CallsNamed("get_img") # {}
    /\ 0 \in folders
    /\ new_path = <<1>>
    /\ img_list = <<ImgName(1, 0, ticks)>>
    /\ img_list[1] \in images


(***************************************************************************)
(* Step3-Implementation/autonomous_car_controller.py: the driving loop.    *)
(***************************************************************************)

\* img_path = os.path.join(os.getcwd(), "road_img")
img_path == "road_img"

\* PiCameraController.get_img(file_name): capture_file(f"{file_name}.jpg")
CaptureFile(file_name) == <<file_name, ".jpg">>

\* Line 84: camera_controller.get_img(img_path)
AutoCapture ==
    /\ auto_pc = "capture"
    /\ auto_calls' = <<(<<"capture_file", CaptureFile(img_path)>>)>>
    /\ auto_pc' = "read"
    /\ UNCHANGED <<loop, mixer, drivers, road_img>>

\* Lines 85-88: cv2.imread(img_path) finds a file of that name; the image
\* is preprocessed.
AutoRead ==
    /\ auto_pc = "read"
    /\ road_img
    /\ auto_calls' = Append(auto_calls, <<"imread", <<img_path>>>>)
    /\ auto_pc' = "predict"
    /\ UNCHANGED <<loop, mixer, drivers, road_img>>

\* Lines 85-87: cv2.imread(img_path) finds no file of that name and returns
\* None; cv2.cvtColor in preProcess raises.
AutoReadFails ==
    /\ auto_pc = "read"
    /\ ~road_img
    /\ auto_calls' = Append(auto_calls, <<"imread", <<img_path>>>>)
    /\ auto_pc' = "crashed"
    /\ UNCHANGED <<loop, mixer, drivers, road_img>>

\* Lines 89-91: prediction = model.predict(img); angle, speed = its outputs.
AutoPredict ==
    /\ auto_pc = "predict"
    /\ \E an \in ArgGrid : \E sp \in ArgGrid :
          /\ mix_angle' = an
          /\ mix_speed' = sp
    /\ mix_pc' = "called"
    /\ auto_calls' = Append(auto_calls, <<"predict", <<>>>>)
    /\ auto_pc' = "move"
    /\ UNCHANGED <<loop, drivers, road_img, motors_right, motors_left>>

\* Line 95: cv2.waitKey(1), then the next iteration.
AutoWaitKey ==
    /\ auto_pc = "move"
    /\ mix_pc = "move_forward"
    /\ mix_pc' = "idle"
    /\ auto_calls' = <<>>
    /\ auto_pc' = "capture"
    /\ UNCHANGED <<loop, drivers, road_img, mix_speed, mix_angle,
                   motors_right, motors_left>>

\* main() entered; the working directory may or may not hold a file named
\* "road_img".
InitAuto ==
    /\ LoopInit
    /\ folders = {}
    /\ MixerIdle
    /\ DriversIdle
    /\ auto_pc = "capture"
    /\ road_img \in BOOLEAN
    /\ auto_calls = <<>>

NextAuto ==
    \/ AutoCapture
    \/ AutoRead
    \/ AutoReadFails
    \/ AutoPredict
    \/ MoveForward
    \/ AutoWaitKey

SpecAuto == InitAuto /\ [][NextAuto]_vars

\* The names of the calls made so far in this iteration.
AutoCallNames == [i \in 1..Len(auto_calls) |-> auto_calls[i][1]]

\* C29: the autonomous loop makes, in every iteration and in this order,
\* one capture, one prediction and one move_forward call; it only invokes
\* the forward primitive, with wheel magnitudes in [0,1], so a predicted
\* speed <= 0 with angle 0 commands both wheels to 0 and the car is never
\* driven backward; the loop has no terminal state.
C29_AutonomousLoop ==
    /\ auto_pc \in {"capture", "read", "predict", "move"}
    /\ ENABLED NextAuto
    /\ auto_pc = "move" =>
          AutoCallNames = <<"capture_file", "imread", "predict">>
    /\ mix_pc = "called" => auto_pc = "move"
    /\ mix_pc = "move_forward" =>
          /\ auto_pc = "move"
          /\ motors_right[1] = "forward" /\ motors_right[2] \in 0..10
          /\ motors_left[1] = "forward" /\ motors_left[2] \in 0..10
          /\ (mix_speed <= 0 /\ mix_angle = 0) =>
                (motors_right[2] = 0 /\ motors_left[2] = 0)
    /\ motors_right[1] # "backward"
    /\ motors_left[1] # "backward"

=============================================================================
